---- MODULE Spec2Model ----
(***************************************************************************)
(* State-machine model of TrigramModel (ngram_model.py): fit() and         *)
(* generate() over the nested trigram count table.                         *)
(*                                                                         *)
(* A text is a sequence of symbols.  A symbol is one character, except the *)
(* symbol "<start>", which stands for the seven-character substring that   *)
(* spells the START sentinel.  A token is a non-empty sequence of          *)
(* non-whitespace symbols, so the token <<"<start>">> is the START         *)
(* sentinel and <<"a", "<start>">> is the ordinary word "a<start>".        *)
(***************************************************************************)
EXTENDS Integers, Sequences, FiniteSets, TLC

\* ------------------------------------------------------------------ bounds
\* a fit(text) call costs Len(text) + 1; a run trains on at most this much
MaxTrainCost == 5
\* unk_threshold ranges over 0..MaxThreshold
MaxThreshold == 1
\* max_length ranges over 0..MaxLength
MaxLength == 2
\* token sequences handed to _handle_unknown_words alone have at most this length
MaxUnkLen == 3

\* --------------------------------------------------------------- constants
START_TOKEN == <<"<start>">>
END_TOKEN == <<"<end>">>
UNK_TOKEN == <<"<unk>">>

Alphabet == {"a", "A", " ", "\n", "<start>"}

Whitespace == {" ", "\n"}

SeqsUpTo(S, n) == UNION {[1..k -> S] : k \in 0..n}

Texts == SeqsUpTo(Alphabet, MaxTrainCost - 1)

SeedTokens == {START_TOKEN, <<"a">>}

NoSeed == <<>>

Seeds == {NoSeed} \cup (SeedTokens \X SeedTokens)

UnkTokens == {<<"a">>, <<"b">>, START_TOKEN, END_TOKEN, UNK_TOKEN}

\* ------------------------------------------------- dictionaries (defaultdict)
EmptyMap == [k \in {} |-> 0]

\* d[k] += 1 on a defaultdict(int)
Incr(d, k) == [x \in DOMAIN d \cup {k} |->
                 IF x = k THEN (IF k \in DOMAIN d THEN d[k] ELSE 0) + 1 ELSE d[x]]

\* reading d[k] from a local defaultdict(int): a missing key reads as 0
GetInt(d, k) == IF k \in DOMAIN d THEN d[k] ELSE 0

\* counts[w1][w2][w3], read without creating keys (0 when any level is absent)
Count3(c, a, b, t) ==
  IF a \in DOMAIN c /\ b \in DOMAIN c[a] /\ t \in DOMAIN c[a][b] THEN c[a][b][t] ELSE 0

\* ------------------------------------------------------------ normalisation
LowerSym(ch) == IF ch = "A" THEN "a" ELSE ch

Lower(text) == [i \in 1..Len(text) |-> LowerSym(text[i])]

\* re.sub(r'\s+', ' ', text): every maximal whitespace run becomes one space
RECURSIVE CollapseWs(_)
CollapseWs(text) ==
  IF text = <<>> THEN <<>>
  ELSE IF Head(text) \in Whitespace
       THEN IF Len(text) > 1 /\ text[2] \in Whitespace
            THEN CollapseWs(Tail(text))
            ELSE <<" ">> \o CollapseWs(Tail(text))
       ELSE <<Head(text)>> \o CollapseWs(Tail(text))

RECURSIVE LStrip(_)
LStrip(text) ==
  IF text # <<>> /\ Head(text) \in Whitespace THEN LStrip(Tail(text)) ELSE text

RECURSIVE RStrip(_)
RStrip(text) ==
  IF text # <<>> /\ text[Len(text)] \in Whitespace
  THEN RStrip(SubSeq(text, 1, Len(text) - 1)) ELSE text

\* str.strip()
Strip(text) == RStrip(LStrip(text))

\* _clean_text
CleanText(text) == Strip(CollapseWs(Lower(text)))

\* str.split(): cur is the word being read, out the words read so far
RECURSIVE SplitFrom(_, _, _)
SplitFrom(text, cur, out) ==
  IF text = <<>> THEN (IF cur = <<>> THEN out ELSE Append(out, cur))
  ELSE IF Head(text) \in Whitespace
       THEN SplitFrom(Tail(text), <<>>, IF cur = <<>> THEN out ELSE Append(out, cur))
       ELSE SplitFrom(Tail(text), Append(cur, Head(text)), out)

\* _tokenize
Tokenize(text) == SplitFrom(text, <<>>, <<>>)

\* " ".join(words)
RECURSIVE Join(_)
Join(words) ==
  IF words = <<>> THEN <<>>
  ELSE IF Len(words) = 1 THEN words[1]
       ELSE words[1] \o <<" ">> \o Join(Tail(words))

\* `not text or not text.strip()`
IsBlank(text) == text = <<>> \/ Strip(text) = <<>>

\* ------------------------------------------------- _handle_unknown_words
Sentinels == {START_TOKEN, END_TOKEN, UNK_TOKEN}

\* first pass: word_counts over the tokens that are no special token
RECURSIVE WordCounts(_, _)
WordCounts(tokens, wc) ==
  IF tokens = <<>> THEN wc
  ELSE WordCounts(Tail(tokens),
                  IF Head(tokens) \notin Sentinels THEN Incr(wc, Head(tokens)) ELSE wc)

\* the comparison made strict: a word seen exactly threshold times survives
IsRare_Strict(n, threshold) == n < threshold

\* `word_counts[token] <= self.unk_threshold`
IsRare(n, threshold) == n <= threshold

\* second pass: out is processed_tokens, v is self.vocab
RECURSIVE ReplaceRare(_, _, _, _, _)
ReplaceRare(tokens, wc, threshold, out, v) ==
  IF tokens = <<>> THEN [tokens |-> out, vocab |-> v]
  ELSE LET t == Head(tokens)
       IN IF t \in {START_TOKEN, END_TOKEN}
          THEN ReplaceRare(Tail(tokens), wc, threshold, Append(out, t), v)
          ELSE IF IsRare(GetInt(wc, t), threshold)
               THEN ReplaceRare(Tail(tokens), wc, threshold,
                                Append(out, UNK_TOKEN), Incr(v, UNK_TOKEN))
               ELSE ReplaceRare(Tail(tokens), wc, threshold, Append(out, t), Incr(v, t))

HandleUnknownWords(tokens, v, threshold) ==
  ReplaceRare(tokens, WordCounts(tokens, EmptyMap), threshold, <<>>, v)

\* ------------------------------------------------------------ _add_padding
\* the two START tokens left out
AddPadding_NoStart(tokens) ==
  IF tokens = <<>> THEN <<>>
  ELSE tokens \o <<END_TOKEN>>

AddPadding(tokens) ==
  IF tokens = <<>> THEN <<>>
  ELSE <<START_TOKEN, START_TOKEN>> \o tokens \o <<END_TOKEN>>

\* --------------------------------------------------------------------- fit
\* `= 1` in place of `+= 1`
IncTrigram_Assign(c, a, b, t) ==
  LET l1 == IF a \in DOMAIN c THEN c[a] ELSE EmptyMap
      l2 == IF b \in DOMAIN l1 THEN l1[b] ELSE EmptyMap
      n2 == [x \in DOMAIN l2 \cup {t} |-> IF x = t THEN 1 ELSE l2[x]]
      n1 == [x \in DOMAIN l1 \cup {b} |-> IF x = b THEN n2 ELSE l1[x]]
  IN [x \in DOMAIN c \cup {a} |-> IF x = a THEN n1 ELSE c[x]]

\* self.counts[w1][w2][w3] += 1 on the nested defaultdict
IncTrigram(c, a, b, t) ==
  LET l1 == IF a \in DOMAIN c THEN c[a] ELSE EmptyMap
      l2 == IF b \in DOMAIN l1 THEN l1[b] ELSE EmptyMap
      n2 == Incr(l2, t)
      n1 == [x \in DOMAIN l1 \cup {b} |-> IF x = b THEN n2 ELSE l1[x]]
  IN [x \in DOMAIN c \cup {a} |-> IF x = a THEN n1 ELSE c[x]]

\* the last window left out
TrigramRange_Short(n) == n - 3

\* range(len(padded_tokens) - 2): the number of window positions
TrigramRange(n) == n - 2

\* the loop of step 5, from 1-based position i
RECURSIVE CountTrigrams(_, _, _)
CountTrigrams(c, padded, i) ==
  IF i > TrigramRange(Len(padded)) THEN c
  ELSE CountTrigrams(IncTrigram(c, padded[i], padded[i + 1], padded[i + 2]), padded, i + 1)

FreshModel == [counts |-> EmptyMap, vocab |-> EmptyMap, trained |-> FALSE]

\* the early return of lines 138-140 without `self.trained = True`
FitModel_NoFlag(m, text, threshold) ==
  IF IsBlank(text)
  THEN m
  ELSE LET tokens == Tokenize(CleanText(text))
           hu == HandleUnknownWords(tokens, m.vocab, threshold)
           padded == AddPadding(hu.tokens)
       IN [counts |-> CountTrigrams(m.counts, padded, 1),
           vocab |-> hu.vocab,
           trained |-> TRUE]

\* fit(text) on the model m = [counts, vocab, trained]
FitModel(m, text, threshold) ==
  IF IsBlank(text)
  THEN [m EXCEPT !.trained = TRUE]
  ELSE LET tokens == Tokenize(CleanText(text))
           hu == HandleUnknownWords(tokens, m.vocab, threshold)
           padded == AddPadding(hu.tokens)
       IN [counts |-> CountTrigrams(m.counts, padded, 1),
           vocab |-> hu.vocab,
           trained |-> TRUE]

\* ------------------------------------------ _get_next_word_probabilities
\* The lookup of (w1, w2).  table is self.counts after the lookup: the
\* membership tests of line 177 insert no key, and counts[w1][w2] is read
\* only when both keys are present.  probs maps each third word to its
\* probability count / total_count, kept as the fraction [num, den].
\* the lookup without the membership tests of line 177: reading
\* self.counts[w1][w2] on the nested defaultdict creates the missing keys
GetNextWordProbabilities_Vivify(c, a, b) ==
  LET l1 == IF a \in DOMAIN c THEN c[a] ELSE EmptyMap
      ctx == IF b \in DOMAIN l1 THEN l1[b] ELSE EmptyMap
      n1 == [x \in DOMAIN l1 \cup {b} |-> IF x = b THEN ctx ELSE l1[x]]
      table == [x \in DOMAIN c \cup {a} |-> IF x = a THEN n1 ELSE c[x]]
      RECURSIVE SumOver(_)
      SumOver(S) == IF S = {} THEN 0
                    ELSE LET x == CHOOSE y \in S : TRUE
                         IN ctx[x] + SumOver(S \ {x})
      total_count == SumOver(DOMAIN ctx)
  IN IF total_count = 0
     THEN [table |-> table, probs |-> EmptyMap]
     ELSE [table |-> table,
           probs |-> [w \in DOMAIN ctx |-> [num |-> ctx[w], den |-> total_count]]]

GetNextWordProbabilities(c, a, b) ==
  IF a \notin DOMAIN c \/ b \notin DOMAIN c[a]
  THEN [table |-> c, probs |-> EmptyMap]
  ELSE LET ctx == c[a][b]
           RECURSIVE SumOver(_)
           SumOver(S) == IF S = {} THEN 0
                         ELSE LET x == CHOOSE y \in S : TRUE
                              IN ctx[x] + SumOver(S \ {x})
           total_count == SumOver(DOMAIN ctx)
       IN IF total_count = 0
          THEN [table |-> c, probs |-> EmptyMap]
          ELSE [table |-> c,
                probs |-> [w \in DOMAIN ctx |-> [num |-> ctx[w], den |-> total_count]]]

\* random.choices(words, weights=probs, k=1)[0]: any word of positive weight
RandomChoices(probs) == {w \in DOMAIN probs : probs[w].num > 0}

\* random.choices called before the test for an empty distribution
SampleNextWord_AlwaysDraws(c, a, b) ==
  LET p == GetNextWordProbabilities(c, a, b)
  IN IF p.probs = EmptyMap
     THEN {[word |-> END_TOKEN, draws |-> 1, table |-> p.table]}
     ELSE {[word |-> w, draws |-> 1, table |-> p.table] : w \in RandomChoices(p.probs)}

\* the context handed over as (w2, w1)
SampleNextWord_Swapped(c, a, b) ==
  LET p == GetNextWordProbabilities(c, b, a)
  IN IF p.probs = EmptyMap
     THEN {[word |-> END_TOKEN, draws |-> 0, table |-> p.table]}
     ELSE {[word |-> w, draws |-> 1, table |-> p.table] : w \in RandomChoices(p.probs)}

\* _sample_next_word: the possible outcomes [word, draws, table], draws being
\* the number of calls made to the random source
SampleNextWord(c, a, b) ==
  LET p == GetNextWordProbabilities(c, a, b)
  IN IF p.probs = EmptyMap
     THEN {[word |-> END_TOKEN, draws |-> 0, table |-> p.table]}
     ELSE {[word |-> w, draws |-> 1, table |-> p.table] : w \in RandomChoices(p.probs)}

\* ---------------------------------------------------------------- generate
\* `while length <= max_length`
LoopContinues_Inclusive(len, maxlen) == len <= maxlen

\* `while length < max_length`
LoopContinues(len, maxlen) == len < maxlen

\* every special token skipped, UNKNOWN included
Emit_SkipSpecial(words, word) ==
  IF word \notin {START_TOKEN, END_TOKEN, UNK_TOKEN} THEN Append(words, word)
  ELSE words

\* lines 260-265: what a sampled word that is not END adds to generated_words
Emit(words, word) ==
  IF word \notin {START_TOKEN, END_TOKEN, UNK_TOKEN} THEN Append(words, word)
  ELSE IF word = UNK_TOKEN THEN Append(words, word)
       ELSE words

\* `w1, w2 = START, START` or `w1, w2 = seed_text`
InitialContext(seed) ==
  IF seed = NoSeed THEN <<START_TOKEN, START_TOKEN>> ELSE seed

\* --------------------------------------------------------------- the state
VARIABLES
  counts, vocab, trained, unk_threshold,
  pc,
  text_arg, hu_in, hu_out,
  seed_text, max_length, w1, w2, generated_words, length, next_word,
  result, rng_calls, steps,
  cost, sum_counts, sum_vocab, only_blank

\* the model object
model_vars == <<counts, vocab, trained, unk_threshold>>
\* the frame of a fit call: its argument, and the argument and the result of
\* its call of _handle_unknown_words
fit_frame == <<text_arg, hu_in, hu_out>>
\* the frame of a generate call, with the string it returns, the number of
\* calls it made to the random source and the number of loop iterations
gen_frame == <<seed_text, max_length, w1, w2, generated_words, length, next_word,
               result, rng_calls, steps>>
\* the history of the run: the training cost spent, the sums of what each
\* fitted text yields alone on a fresh model, whether every fitted text was blank
history_vars == <<cost, sum_counts, sum_vocab, only_blank>>
vars == <<model_vars, pc, fit_frame, gen_frame, history_vars>>

\* pointwise sum of two word -> count maps
AddMaps(f, g) ==
  [k \in DOMAIN f \cup DOMAIN g |-> GetInt(f, k) + GetInt(g, k)]

\* pointwise sum of two trigram tables
AddTables(c, d) ==
  [a \in DOMAIN c \cup DOMAIN d |->
    LET ca == IF a \in DOMAIN c THEN c[a] ELSE EmptyMap
        da == IF a \in DOMAIN d THEN d[a] ELSE EmptyMap
    IN [b \in DOMAIN ca \cup DOMAIN da |->
         AddMaps(IF b \in DOMAIN ca THEN ca[b] ELSE EmptyMap,
                 IF b \in DOMAIN da THEN da[b] ELSE EmptyMap)]]

\* no fit call is in progress
NoFitFrame == text_arg = <<>> /\ hu_in = <<>> /\ hu_out = <<>>

\* no generate call is in progress
NoGenFrame ==
  /\ seed_text = NoSeed /\ max_length = 0
  /\ w1 = START_TOKEN /\ w2 = START_TOKEN
  /\ generated_words = <<>> /\ length = 0 /\ next_word = <<>>
  /\ result = <<>> /\ rng_calls = 0 /\ steps = 0

\* __init__(unk_threshold)
Init ==
  /\ counts = EmptyMap /\ vocab = EmptyMap /\ trained = FALSE
  /\ unk_threshold \in 0..MaxThreshold
  /\ pc = "idle" /\ NoFitFrame /\ NoGenFrame
  /\ cost = 0 /\ sum_counts = EmptyMap /\ sum_vocab = EmptyMap /\ only_blank = TRUE

\* fit(text), the whole call
Fit(text) ==
  /\ pc = "idle"
  /\ cost + Len(text) + 1 <= MaxTrainCost
  /\ LET m == FitModel([counts |-> counts, vocab |-> vocab, trained |-> trained],
                       text, unk_threshold)
         alone == FitModel(FreshModel, text, unk_threshold)
         tokens == Tokenize(CleanText(text))
     IN /\ counts' = m.counts
        /\ vocab' = m.vocab
        /\ trained' = m.trained
        /\ sum_counts' = AddTables(sum_counts, alone.counts)
        /\ sum_vocab' = AddMaps(sum_vocab, alone.vocab)
        /\ IF IsBlank(text)
           THEN hu_in' = <<>> /\ hu_out' = <<>>
           ELSE /\ hu_in' = tokens
                /\ hu_out' = HandleUnknownWords(tokens, vocab, unk_threshold).tokens
  /\ pc' = "fitted"
  /\ text_arg' = text
  /\ cost' = cost + Len(text) + 1
  /\ only_blank' = (only_blank /\ IsBlank(text))
  /\ UNCHANGED <<unk_threshold, gen_frame>>

\* fit has returned to its caller; its frame is gone
FitReturn ==
  /\ pc = "fitted"
  /\ pc' = "idle"
  /\ text_arg' = <<>> /\ hu_in' = <<>> /\ hu_out' = <<>>
  /\ UNCHANGED <<model_vars, gen_frame, history_vars>>

\* generate(max_length, seed_text), up to the first test of the loop condition
GenerateCall(maxlen, seed) ==
  /\ pc = "idle"
  /\ seed_text' = seed
  /\ max_length' = maxlen
  /\ next_word' = <<>> /\ rng_calls' = 0 /\ steps' = 0
  /\ generated_words' = <<>> /\ length' = 0
  /\ IF ~trained \/ counts = EmptyMap
     THEN /\ result' = <<>>
          /\ pc' = "returned"
          /\ UNCHANGED <<w1, w2>>
     ELSE /\ w1' = InitialContext(seed)[1]
          /\ w2' = InitialContext(seed)[2]
          /\ IF LoopContinues(0, maxlen)
             THEN pc' = "generating" /\ UNCHANGED result
             ELSE pc' = "returned" /\ result' = Join(<<>>)
  /\ UNCHANGED <<model_vars, fit_frame, history_vars>>

\* one iteration of the while loop, and the return when the loop ends with it
GenerateStep ==
  /\ pc = "generating"
  /\ \E o \in SampleNextWord(counts, w1, w2) :
       /\ next_word' = o.word
       /\ counts' = o.table
       /\ rng_calls' = rng_calls + o.draws
       /\ steps' = steps + 1
       /\ IF o.word = END_TOKEN
          THEN /\ pc' = "returned"
               /\ result' = Join(generated_words)
               /\ UNCHANGED <<w1, w2, generated_words, length>>
          ELSE /\ generated_words' = Emit(generated_words, o.word)
               /\ w1' = w2
               /\ w2' = o.word
               /\ length' = length + 1
               /\ IF LoopContinues(length + 1, max_length)
                  THEN pc' = "generating" /\ UNCHANGED result
                  ELSE pc' = "returned" /\ result' = Join(Emit(generated_words, o.word))
  /\ UNCHANGED <<vocab, trained, unk_threshold, seed_text, max_length,
                 fit_frame, history_vars>>

\* generate has returned to its caller; its frame is gone
GenerateReturn ==
  /\ pc = "returned"
  /\ pc' = "idle"
  /\ seed_text' = NoSeed /\ max_length' = 0
  /\ w1' = START_TOKEN /\ w2' = START_TOKEN
  /\ generated_words' = <<>> /\ length' = 0 /\ next_word' = <<>>
  /\ result' = <<>> /\ rng_calls' = 0 /\ steps' = 0
  /\ UNCHANGED <<model_vars, fit_frame, history_vars>>

Next ==
  \/ \E text \in Texts : Fit(text)
  \/ FitReturn
  \/ \E maxlen \in 0..MaxLength, seed \in Seeds : GenerateCall(maxlen, seed)
  \/ GenerateStep
  \/ GenerateReturn

Spec == Init /\ [][Next]_vars

\* ------------------------------------ _handle_unknown_words on its own
\* A fresh model whose _handle_unknown_words is called once, directly, with
\* any token sequence, special tokens included.
InitUnk ==
  /\ counts = EmptyMap /\ vocab = EmptyMap /\ trained = FALSE
  /\ unk_threshold \in 0..MaxThreshold
  /\ pc = "idle" /\ NoGenFrame
  /\ text_arg = <<>> /\ hu_out = <<>>
  /\ hu_in \in SeqsUpTo(UnkTokens, MaxUnkLen)
  /\ cost = 0 /\ sum_counts = EmptyMap /\ sum_vocab = EmptyMap /\ only_blank = TRUE

CallHandleUnknownWords ==
  /\ pc = "idle"
  /\ LET hu == HandleUnknownWords(hu_in, vocab, unk_threshold)
     IN hu_out' = hu.tokens /\ vocab' = hu.vocab
  /\ pc' = "handled"
  /\ UNCHANGED <<counts, trained, unk_threshold, text_arg, hu_in, gen_frame, history_vars>>

NextUnk == CallHandleUnknownWords

SpecUnk == InitUnk /\ [][NextUnk]_vars

\* ======================================================================
\* The claims
\* ======================================================================

\* every key of the table, at any of its three levels
KeysOf(c) ==
  DOMAIN c
  \cup UNION {DOMAIN c[a] : a \in DOMAIN c}
  \cup UNION {UNION {DOMAIN c[a][b] : b \in DOMAIN c[a]} : a \in DOMAIN c}

Elems(seq) == {seq[i] : i \in 1..Len(seq)}

\* the number of positions of seq at which the triple (a, b, t) starts
Occurrences(seq, a, b, t) ==
  Cardinality({i \in 1..(Len(seq) - 2) :
                 seq[i] = a /\ seq[i + 1] = b /\ seq[i + 2] = t})

\* the number of positions of seq at which (a, b) starts, followed by a token
ContextOccurrences(seq, a, b) ==
  Cardinality({i \in 1..(Len(seq) - 2) : seq[i] = a /\ seq[i + 1] = b})

\* the sum over w3 of counts[a][b][w3]
RECURSIVE SumCounts(_, _, _, _)
SumCounts(c, a, b, S) ==
  IF S = {} THEN 0
  ELSE LET t == CHOOSE y \in S : TRUE
       IN Count3(c, a, b, t) + SumCounts(c, a, b, S \ {t})

ContextMass(c, a, b) == SumCounts(c, a, b, KeysOf(c))

\* the context (a, b) has no entry in the table
NoEntries(c, a, b) ==
  a \notin DOMAIN c \/ b \notin DOMAIN c[a] \/ c[a][b] = EmptyMap

\* fit has just returned, and it was called on a freshly constructed model
FitOnFresh == pc = "fitted" /\ cost = Len(text_arg) + 1

HasWord(text) == \E i \in 1..Len(text) : text[i] \notin Whitespace

\* a transition made by a generate call
GenerateTransition == pc' \in {"generating", "returned"} \/ pc = "returned"

\* a transition that runs one iteration of generate's loop
LoopIteration == pc = "generating" /\ steps' = steps + 1

\* ------------------------------------------------------------------- C1
\* C1 as stated: after fit(text) on a fresh model, for every text of length
\* >= 1, the trained flag is true and the count table is non-empty.
C1_Original ==
  (FitOnFresh /\ Len(text_arg) >= 1) => (trained /\ counts # EmptyMap)

\* C1 amended: after fit(text) on a fresh model, for every text that holds
\* at least one non-whitespace character, the trained flag is true and the
\* count table is non-empty.
C1_Amended ==
  (FitOnFresh /\ HasWord(text_arg)) => (trained /\ counts # EmptyMap)

C1_Witness ==
  /\ FitOnFresh /\ HasWord(text_arg) /\ Len(Tokenize(CleanText(text_arg))) = 1
  /\ counts # EmptyMap

\* ------------------------------------------------------------------- C2
\* the counts of the table are the occurrences in seq, triple by triple and
\* context by context
CountsMatch(c, seq) ==
  \A a \in KeysOf(c) \cup Elems(seq), b \in KeysOf(c) \cup Elems(seq) :
    /\ ContextMass(c, a, b) = ContextOccurrences(seq, a, b)
    /\ \A t \in KeysOf(c) \cup Elems(seq) :
         Count3(c, a, b, t) = Occurrences(seq, a, b, t)

\* C2 as stated: after fit(text) on a fresh model the table holds, for every
\* context and every triple, the occurrences in the sequence
\* [START, START] + tokens + [END], tokens being the post-substitution tokens.
C2_Original ==
  FitOnFresh =>
    CountsMatch(counts, <<START_TOKEN, START_TOKEN>> \o hu_out \o <<END_TOKEN>>)

\* C2 amended: after fit(text) on a fresh model the table holds, for every
\* context and every triple, the occurrences in the padded sequence, which is
\* [START, START] + tokens + [END] when the text has at least one token and
\* the empty sequence when it has none.
C2_Amended ==
  FitOnFresh =>
    CountsMatch(counts,
                IF hu_out = <<>> THEN <<>>
                ELSE <<START_TOKEN, START_TOKEN>> \o hu_out \o <<END_TOKEN>>)

C2_Witness ==
  /\ FitOnFresh
  /\ Len(hu_out) = 2
  /\ ContextMass(counts, START_TOKEN, START_TOKEN) = 2

\* ------------------------------------------------------------------- C3
\* the frequency the first pass records for token t of seq
Pass1Frequency(seq, t) ==
  IF t \in Sentinels THEN 0 ELSE Cardinality({i \in 1..Len(seq) : seq[i] = t})

C4_EmptyGenerate ==
  /\ (only_blank /\ cost > 0) => (trained /\ counts = EmptyMap)
  /\ (only_blank /\ cost = 0) => ~trained
  /\ (pc = "returned" /\ (~trained \/ only_blank)) => result = <<>>

C4_Witness ==
  /\ pc = "returned" /\ only_blank /\ cost >= 2 /\ trained
  /\ max_length > 0 /\ result = <<>>

\* ------------------------------------------------------------------- C5
\* C5: on a trained model, generate started from a seed context with no
\* entries in the table returns the empty string without drawing from the
\* random source; and any step that draws from the random source does so
\* under a context whose distribution is non-empty.
C5_EndShortCircuit ==
  /\ [](( /\ pc = "returned" /\ trained
          /\ NoEntries(counts, InitialContext(seed_text)[1], InitialContext(seed_text)[2]))
        => (result = <<>> /\ rng_calls = 0))
  /\ [][rng_calls' > rng_calls => ~NoEntries(counts, w1, w2)]_vars

C5_Witness ==
  /\ pc = "returned" /\ trained /\ counts # EmptyMap
  /\ max_length > 0 /\ steps = 1 /\ seed_text # NoSeed
  /\ NoEntries(counts, seed_text[1], seed_text[2])
  /\ result = <<>> /\ rng_calls = 0

\* ------------------------------------------------------------------- C6
\* C6: a generate call runs at most max_length sampling steps and its output
\* holds at most max_length tokens; with max_length = 0 it returns the empty
\* string.
C6_LengthBound ==
  /\ steps <= max_length
  /\ Len(generated_words) <= max_length
  /\ pc = "returned" =>
       /\ Len(Tokenize(result)) <= max_length
       /\ max_length = 0 => result = <<>>

C6_Witness ==
  /\ pc = "returned" /\ max_length >= 2
  /\ steps = max_length /\ Len(Tokenize(result)) = max_length

\* ------------------------------------------------------------------- C7
\* C7: the table and the vocabulary are, count by count, the sums of what
\* each fitted text yields alone on a fresh model with the same threshold, and
\* no step ever lowers or removes a count.
C7_Cumulative ==
  /\ [](counts = sum_counts /\ vocab = sum_vocab)
  /\ [][ /\ \A a \in KeysOf(counts), b \in KeysOf(counts), t \in KeysOf(counts) :
              Count3(counts', a, b, t) >= Count3(counts, a, b, t)
         /\ \A k \in DOMAIN vocab : GetInt(vocab', k) >= vocab[k] ]_vars

C7_Witness ==
  /\ pc = "fitted" /\ cost > Len(text_arg) + 1
  /\ Count3(counts, START_TOKEN, START_TOKEN, <<"a">>) = 2
  /\ GetInt(vocab, <<"a">>) >= 2

\* ------------------------------------------------------------------- C8
\* C8: no transition of a generate call changes the count table (its keys at
\* the three levels and its counts), the vocabulary or the trained flag.
C8_GenerateReadOnly ==
  [][GenerateTransition =>
       (counts' = counts /\ vocab' = vocab /\ trained' = trained)]_vars

C8_Witness ==
  /\ pc = "returned" /\ trained /\ counts # EmptyMap
  /\ steps >= 1 /\ seed_text # NoSeed
  /\ seed_text[1] \notin DOMAIN counts

C10_ObservedTransitions ==
  [][LoopIteration =>
       /\ generated_words' # generated_words =>
            /\ generated_words' = Append(generated_words, next_word')
            /\ Count3(counts, w1, w2, next_word') >= 1
       /\ (~NoEntries(counts, w1, w2) /\ DOMAIN counts[w1][w2] = {END_TOKEN}) =>
            /\ pc' = "returned"
            /\ generated_words' = generated_words
            /\ result' = Join(generated_words)]_vars

C10_Witness ==
  /\ pc = "returned" /\ Len(generated_words) = 2 /\ next_word = <<"a">>
  /\ seed_text # NoSeed

====
